---- MODULE Spec2Model ----
(***************************************************************************)
(* TurboTrends news bot (src/main.py): a polling loop that fetches         *)
(* headlines, summarizes each article, stores it with de-duplication on    *)
(* url and tweets the ones that were newly stored.                         *)
(*                                                                         *)
(* Text is modelled as a sequence of one-character strings.  Time is the   *)
(* wall clock in seconds.  The articles table is a bag of rows;            *)
(* connections are numbered handles, 0 standing for Python's None.         *)
(***************************************************************************)
EXTENDS Integers, Sequences, FiniteSets, Bags, TLC

(***************************************************************************)
(* Bounds of the model.                                                    *)
(***************************************************************************)
\* the clock stops the loop from idling once it shows MaxTicks idle increments
MaxTicks == 2
\* configured CHECK_INTERVAL_MINUTES range over 0..MaxInterval
MaxInterval == 2
\* longest page of articles the feed returns
MaxArticles == 2
\* how many times connect_db can hand out a connection
MaxConn == 2
\* longest reply of the chat model, in pieces of text
MaxReplyPieces == 4

(***************************************************************************)
(* Program constants.                                                      *)
(***************************************************************************)
\* time.sleep(60)
SleepSeconds == 60
\* check_interval * 60
SecondsPerMinute == 60

MaxClock == MaxTicks * SleepSeconds

(***************************************************************************)
(* Text helpers: Python's str operations on sequences of characters.       *)
(***************************************************************************)
\* Python's None where a string is expected
None == <<"None">>

Whitespace == {" ", "\n", "\t"}

\* s[i:] starts with p (i is a 1-based index)
StartsWithAt(s, p, i) ==
  /\ i + Len(p) - 1 <= Len(s)
  /\ \A k \in 1..Len(p) : s[i + k - 1] = p[k]

\* str.find: the first index >= 1 at which p occurs in s, 0 when it does not
Find(s, p) ==
  LET hits == {i \in 1..Len(s) : StartsWithAt(s, p, i)}
  IN  IF hits = {} THEN 0 ELSE CHOOSE i \in hits : \A j \in hits : i <= j

\* s[i:] for a 1-based i
Drop(s, i) == IF i > Len(s) THEN <<>> ELSE SubSeq(s, i, Len(s))

\* str.replace(p, r): every non-overlapping occurrence, left to right
RECURSIVE Replace(_, _, _)
Replace(s, p, r) ==
  LET i == Find(s, p)
  IN  IF i = 0 THEN s
      ELSE SubSeq(s, 1, i - 1) \o r \o Replace(Drop(s, i + Len(p)), p, r)

\* str.strip()
RECURSIVE LStrip(_)
LStrip(s) == IF s # <<>> /\ Head(s) \in Whitespace THEN LStrip(Tail(s)) ELSE s

RECURSIVE RStrip(_)
RStrip(s) ==
  IF s # <<>> /\ s[Len(s)] \in Whitespace THEN RStrip(SubSeq(s, 1, Len(s) - 1)) ELSE s

Strip(s) == RStrip(LStrip(s))

\* str.split(sep, 1): one or two parts
SplitOnce(s, sep) ==
  LET i == Find(s, sep)
  IN  IF i = 0 THEN <<s>> ELSE <<SubSeq(s, 1, i - 1), Drop(s, i + Len(sep))>>

\* `a or b` on strings: a unless it is None or empty
OrElse(a, b) == IF a = None \/ a = <<>> THEN b ELSE a

HeadlinePrefix == <<"H", "e", "a", "d", "l", "i", "n", "e", ":", " ">>
BlankLine == <<"\n", "\n">>

LowerLetters ==
  <<"a", "b", "c", "d", "e", "f", "g", "h", "i", "j", "k", "l", "m", "n",
    "o", "p", "q", "r", "s", "t", "u", "v", "w", "x", "y", "z">>
UpperLetters ==
  <<"A", "B", "C", "D", "E", "F", "G", "H", "I", "J", "K", "L", "M", "N",
    "O", "P", "Q", "R", "S", "T", "U", "V", "W", "X", "Y", "Z">>
DigitChars ==
  <<"0", "1", "2", "3", "4", "5", "6", "7", "8", "9">>

\* str.lower() on one character, then on a text
LowerChar(c) ==
  IF \E k \in 1..Len(UpperLetters) : UpperLetters[k] = c
  THEN LowerLetters[CHOOSE k \in 1..Len(UpperLetters) : UpperLetters[k] = c]
  ELSE c

Lower(s) == [k \in 1..Len(s) |-> LowerChar(s[k])]

IsDigit(c) == \E k \in 1..Len(DigitChars) : DigitChars[k] = c
DigitVal(c) == (CHOOSE k \in 1..Len(DigitChars) : DigitChars[k] = c) - 1

\* the number written by the digits s[a..b]
RECURSIVE Number(_, _, _)
Number(s, a, b) ==
  IF b < a THEN 0 ELSE Number(s, a, b - 1) * 10 + DigitVal(s[b])

(***************************************************************************)
(* Exceptions: an exception is its message text, NoExc when none is raised.*)
(***************************************************************************)
NoExc == <<>>

\* psycopg2.InterfaceError raised by cursor() and rollback() on a connection
\* that is no longer open
MsgConnectionClosed ==
  <<"c", "o", "n", "n", "e", "c", "t", "i", "o", "n", " ", "a", "l", "r",
    "e", "a", "d", "y", " ", "c", "l", "o", "s", "e", "d">>

\* AttributeError raised by None.cursor()
MsgNoneCursor ==
  <<"'", "N", "o", "n", "e", "T", "y", "p", "e", "'", " ", "o", "b", "j",
    "e", "c", "t", " ", "h", "a", "s", " ", "n", "o", " ", "a", "t", "t",
    "r", "i", "b", "u", "t", "e", " ", "'", "c", "u", "r", "s", "o", "r",
    "'">>

\* ValueError raised by datetime.strptime: "time data '<s>' does not match
\* format '%Y-%m-%dT%H:%M:%SZ'"
MsgTimeDataHead ==
  <<"t", "i", "m", "e", " ", "d", "a", "t", "a", " ", "'">>
MsgTimeDataTail ==
  <<"'", " ", "d", "o", "e", "s", " ", "n", "o", "t", " ", "m", "a", "t",
    "c", "h", " ", "f", "o", "r", "m", "a", "t", " ", "'", "%", "Y", "-",
    "%", "m", "-", "%", "d", "T", "%", "H", ":", "%", "M", ":", "%", "S",
    "Z", "'">>
MsgTimeData(s) == MsgTimeDataHead \o s \o MsgTimeDataTail

\* "connection" in str(e).lower()
ConnectionWord ==
  <<"c", "o", "n", "n", "e", "c", "t", "i", "o", "n">>
MentionsConnection(e) == Find(Lower(e), ConnectionWord) # 0

(***************************************************************************)
(* The feed's articles.                                                    *)
(***************************************************************************)
PublishedOk ==
  <<"2", "0", "2", "4", "-", "0", "1", "-", "0", "2", "T", "0", "3", ":",
    "0", "4", ":", "0", "5", "Z">>
\* a timestamp with fractional seconds, which the feed also emits
PublishedFractional ==
  <<"2", "0", "2", "4", "-", "0", "1", "-", "0", "2", "T", "0", "3", ":",
    "0", "4", ":", "0", "5", ".", "6", "Z">>

Url1 == <<"u", "1">>
Url2 == <<"u", "2">>
Url3 == <<"u", "3">>
Urls == {Url1, Url2, Url3}

Article1 ==
  [title |-> <<"T", "1">>, description |-> <<"D", "1">>, content |-> <<"C", "1">>,
   source |-> <<"N", "1">>, url |-> Url1, publishedAt |-> PublishedOk]
Article2 ==
  [title |-> <<"T", "2">>, description |-> None, content |-> <<"C", "2">>,
   source |-> <<"N", "2">>, url |-> Url2, publishedAt |-> PublishedOk]
Article3 ==
  [title |-> <<"T", "3">>, description |-> None, content |-> None,
   source |-> <<"N", "3">>, url |-> Url3, publishedAt |-> PublishedFractional]
Articles == {Article1, Article2, Article3}

\* the pages the feed can return, by length: the article at each position is
\* drawn from Articles when the for loop reaches it
Pages == {[i \in 1..n |-> Article1] : n \in 0..MaxArticles}

(***************************************************************************)
(* summarize_article                                                       *)
(***************************************************************************)
\* replies of the chat model
ReplyTwoPart == HeadlinePrefix \o <<"A">> \o BlankLine \o <<"S">>
Replies == {ReplyTwoPart}

\* what the model call does: it fails, or it answers with a reply
ModelOutcomes == {[ok |-> FALSE, reply |-> <<>>]} \cup {[ok |-> TRUE, reply |-> r] : r \in Replies}

\* lines 94-104: the reply parsed into headline and summary
ParseReply(reply) ==
  LET summary_text == Strip(reply)
      parts == SplitOnce(summary_text, BlankLine)
      headline == Replace(parts[1], HeadlinePrefix, <<>>)
  IN  [headline |-> headline,
       summary |-> IF Len(parts) > 1 THEN parts[2] ELSE headline]

\* faulty variant: the fallback summary falls back to the content, as the
\* prompt of line 80 does
SummarizeFallbackContent(article) ==
  [headline |-> article.title,
   summary |-> OrElse(article.description, OrElse(article.content, <<>>))]

\* lines 105-110: the fallback when the model call raised
SummarizeFallback(article) ==
  [headline |-> article.title, summary |-> OrElse(article.description, <<>>)]

\* lines 82-110: the call raised (model.ok is false), or the message it
\* returned has no content and .strip() raises on None (line 94)
summarize_article(article, model) ==
  IF model.ok /\ model.reply # None
  THEN ParseReply(model.reply)
  ELSE SummarizeFallback(article)

\* replies of any shape: up to MaxReplyPieces pieces of text, each a word,
\* the literal "Headline: ", a blank line, a newline or a space
ReplyPieces == {<<"A">>, HeadlinePrefix, BlankLine, <<"\n">>, <<" ">>}

RECURSIVE Join(_)
Join(pieces) == IF pieces = <<>> THEN <<>> ELSE Head(pieces) \o Join(Tail(pieces))

AnyReplies ==
  {Join(ps) : ps \in UNION {[1..n -> ReplyPieces] : n \in 0..MaxReplyPieces}}

\* the model call fails, returns a message without content, or answers
AnyModelOutcomes ==
  {[ok |-> FALSE, reply |-> <<>>], [ok |-> TRUE, reply |-> None]}
    \cup {[ok |-> TRUE, reply |-> r] : r \in AnyReplies}

(***************************************************************************)
(* datetime.strptime(s, '%Y-%m-%dT%H:%M:%SZ') on fixed-width timestamps:   *)
(* the parsed fields, or the ValueError it raises.                         *)
(***************************************************************************)
MatchesFormat(s) ==
  /\ Len(s) = 20
  /\ \A k \in {1, 2, 3, 4, 6, 7, 9, 10, 12, 13, 15, 16, 18, 19} : IsDigit(s[k])
  /\ s[5] = "-" /\ s[8] = "-" /\ s[11] = "T"
  /\ s[14] = ":" /\ s[17] = ":" /\ s[20] = "Z"
  /\ Number(s, 6, 7) \in 1..12 /\ Number(s, 9, 10) \in 1..31
  /\ Number(s, 12, 13) \in 0..23 /\ Number(s, 15, 16) \in 0..59
  /\ Number(s, 18, 19) \in 0..61

strptime(s) ==
  IF MatchesFormat(s)
  THEN [exc |-> NoExc,
        value |-> <<Number(s, 1, 4), Number(s, 6, 7), Number(s, 9, 10),
                    Number(s, 12, 13), Number(s, 15, 16), Number(s, 18, 19)>>]
  ELSE [exc |-> MsgTimeData(s), value |-> <<>>]

\* the exceptions the model's calls raise, and line 222 computed once for each
KnownExceptions ==
  {MsgConnectionClosed, MsgNoneCursor}
    \cup {strptime(a.publishedAt).exc : a \in Articles}
KnownConnectionErrors == {e \in KnownExceptions : MentionsConnection(e)}

\* faulty variant: reconnect after any exception
SuggestsLostConnectionAlways(e) == TRUE

\* line 222
SuggestsLostConnection(e) ==
  IF e \in KnownExceptions THEN e \in KnownConnectionErrors ELSE MentionsConnection(e)

\* lines 193-200: the field mapping of process_article
ArticleData(article, processed) ==
  [headline |-> processed.headline,
   summary |-> processed.summary,
   original_title |-> article.title,
   source |-> article.source,
   url |-> article.url,
   published_at |-> strptime(article.publishedAt).value]

(***************************************************************************)
(* State.                                                                  *)
(***************************************************************************)
VARIABLES
  pc,               \* the main thread's position in __main__ / run_news_cycle
  running,          \* the global flag (line 24)
  clock,            \* the wall clock, in seconds since process start
  conn,             \* the connection handle held by __main__, NoConn for None
  twitter_client,   \* TRUE for a tweepy client, FALSE for None
  check_interval,   \* minutes (line 239)
  last_check,       \* seconds (lines 242, 251)
  current_time,     \* seconds (line 245)
  articles_len,     \* len(articles) of the page fetched by the cycle in progress;
                    \* articles[idx] is drawn from the feed when the loop reaches it
  idx,              \* the for loop's position in articles (1-based)
  processed_count,  \* line 211
  exc,              \* the exception caught by run_news_cycle, NoExc if none
  exit_code,        \* the process exit status, NotExited while it runs
  conn_status,      \* every connection handle's state
  table_exists,     \* the articles table has been created
  table,            \* the rows of the articles table, a bag
  timeline,         \* the statuses the social platform accepted
  \* history of the run, read by the properties only
  publish_calls,    \* url -> number of post_tweet calls for it
  post_failed,      \* urls for which a post_tweet call failed
  last_call,        \* what the last process_article call of the cycle in
                    \* progress did: insert_article's outcome, post_tweet called,
                    \* which of its steps failed
  fetch_failed,     \* the last fetch_news call failed
  cycled,           \* a cycle has started
  cycle_start,      \* the time sampled at line 245 when the last cycle started
  idled,            \* an idle sleep has completed
  idles_after_signal, \* idle sleeps completed after the flag was cleared
                    \* (0, 1, or 2 for more than one)
  logged_count,     \* the count in the last "Cycle completed" log line
  probe             \* the last direct insert_article call: its inputs and result

progVars ==
  <<pc, running, clock, conn, twitter_client, check_interval, last_check,
    current_time, articles_len, idx, processed_count, exc, exit_code>>
worldVars == <<conn_status, table_exists, table, timeline>>
histVars ==
  <<publish_calls, post_failed, last_call, fetch_failed, cycled, cycle_start, idled,
    idles_after_signal, logged_count, probe>>
vars == <<progVars, worldVars, histVars>>

\* conn = None
NoConn == 0
\* exit_code while the process has not exited
NotExited == -1

Handles == 1..MaxConn

(***************************************************************************)
(* Storage adapter.                                                        *)
(***************************************************************************)
\* a connection is "unopened" (not handed out yet), "idle" (open), "aborted"
\* (open, in a failed transaction), "broken" (lost: conn.closed is set) or
\* "closed" (conn.close() was called)
ConnStates == {"unopened", "idle", "aborted", "broken", "closed"}

\* an open connection: connected, in or out of a failed transaction
OpenStates == {"idle", "aborted"}

\* what the database does with the INSERT: "ok" executes and commits it,
\* "error" fails the statement (the connection stays up), "lost" drops the
\* connection while it runs
DbOutcomes == {"ok", "error", "lost"}

\* connect_db (lines 39-52): the next handle, or None when connecting fails
NextHandle(status) == 1 + Cardinality({c \in Handles : status[c] # "unopened"})

connect_db(ok, status) ==
  IF ok /\ NextHandle(status) <= MaxConn
  THEN [conn |-> NextHandle(status),
        status |-> [status EXCEPT ![NextHandle(status)] = "idle"]]
  ELSE [conn |-> NoConn, status |-> status]

\* the row of the INSERT (lines 134-145)
Row(data) ==
  [title |-> data.headline, summary |-> data.summary,
   original_title |-> data.original_title, source |-> data.source,
   url |-> data.url, published_at |-> data.published_at]

HasUrl(rows, url) == \E r \in BagToSet(rows) : r.url = url

\* faulty variant: the INSERT without its ON CONFLICT clause on a table without the
\* UNIQUE constraint
InsertIgnoringConflict(rows, row) ==
  [rows |-> rows (+) SetToBag({row}), returned |-> TRUE]

\* faulty variant: ON CONFLICT (url) DO UPDATE, which returns the id of the old row
InsertReturningOnConflict(rows, row) ==
  IF HasUrl(rows, row.url)
  THEN [rows |-> rows, returned |-> TRUE]
  ELSE [rows |-> rows (+) SetToBag({row}), returned |-> TRUE]

\* INSERT ... ON CONFLICT (url) DO NOTHING RETURNING id (lines 133-146):
\* the rows afterwards and whether a row was returned
InsertOnConflictDoNothing(rows, row) ==
  IF HasUrl(rows, row.url)
  THEN [rows |-> rows, returned |-> FALSE]
  ELSE [rows |-> rows (+) SetToBag({row}), returned |-> TRUE]

\* conn.rollback() (line 156): ends the failed transaction of an open
\* connection, raises InterfaceError on one that is not open
Rollback(st) ==
  IF st \in {"idle", "aborted"}
  THEN [exc |-> NoExc, st |-> "idle"]
  ELSE [exc |-> MsgConnectionClosed, st |-> st]

\* faulty variant: the except clause raises the statement's error again after
\* the rollback
MsgStatementFailed == <<"s", "y", "n", "t", "a", "x", " ", "e", "r", "r", "o", "r">>
AfterInsertErrorReraise(rollback_exc) ==
  IF rollback_exc # NoExc THEN rollback_exc ELSE MsgStatementFailed

\* lines 154-157: the except clause lets nothing out but what conn.rollback()
\* raises
AfterInsertError(rollback_exc) == rollback_exc

\* insert_article (lines 130-159).  exc is the exception that leaves the
\* function, value its return value when none does.
insert_article(c, data, db, rows, status) ==
  IF c = NoConn
  THEN \* line 131: None.cursor(), outside the try
       [exc |-> MsgNoneCursor, value |-> FALSE, rows |-> rows, status |-> status]
  ELSE IF status[c] \notin {"idle", "aborted"}
  THEN \* line 131: cursor() of a connection that is not open
       [exc |-> MsgConnectionClosed, value |-> FALSE, rows |-> rows, status |-> status]
  ELSE IF db = "ok" /\ status[c] = "idle"
  THEN \* lines 133-153
       LET r == InsertOnConflictDoNothing(rows, Row(data))
       IN  [exc |-> NoExc, value |-> r.returned, rows |-> r.rows, status |-> status]
  ELSE \* lines 154-157: execute or commit raised
       LET failed == IF db = "lost" THEN "broken" ELSE "aborted"
           rb == Rollback(failed)
       IN  [exc |-> AfterInsertError(rb.exc), value |-> FALSE, rows |-> rows,
            status |-> [status EXCEPT ![c] = rb.st]]

(***************************************************************************)
(* Publisher.                                                              *)
(***************************************************************************)
\* line 164
TweetText(headline, url) == headline \o BlankLine \o url

\* faulty variant: post_tweet without its try/except, the platform's error escapes
MsgTweetRejected == <<"4", "0", "3">>
post_tweet_raising(headline, url, accepted) ==
  [exc |-> IF accepted THEN NoExc ELSE MsgTweetRejected, value |-> accepted,
   text |-> TweetText(headline, url)]

\* post_tweet (lines 161-170): accepted says whether update_status succeeds
post_tweet(headline, url, accepted) ==
  [exc |-> NoExc, value |-> accepted, text |-> TweetText(headline, url)]

(***************************************************************************)
(* Feed fetcher.                                                           *)
(***************************************************************************)
\* faulty variant: the page is used whether or not the request succeeded
fetch_news_unchecked(ok, page) == page

\* fetch_news (lines 54-73): the page, or [] when the request fails
fetch_news(ok, page) == IF ok THEN page ELSE <<>>

(***************************************************************************)
(* process_article (lines 188-205).                                        *)
(***************************************************************************)
\* faulty variant: post whatever insert_article returned
ShouldPublishAlways(inserted) == TRUE

\* line 203: the dedup gate
ShouldPublish(inserted) == inserted

\* the function has no return statement: it returns None, which is falsy
ProcessArticleReturn(inserted) == FALSE

\* What a call did: inserted is "True" or "False" (insert_article's return
\* value), "raised" or "skipped" (it was not called); posted says whether
\* post_tweet was called, accepted whether the platform took the status.
Call(inserted, posted, accepted) ==
  [inserted |-> inserted, posted |-> posted, accepted |-> accepted]

\* lines 191-200 for every article and model outcome, computed once
Prepared ==
  {[article |-> a, model |-> m, parsed |-> strptime(a.publishedAt),
    data |-> ArticleData(a, summarize_article(a, m))] :
     a \in Articles, m \in ModelOutcomes}

process_article(article, c, model, db, accepted, rows, status) ==
  LET p == CHOOSE q \in Prepared : q.article = article /\ q.model = model
      parsed == p.parsed
      data == p.data
      ins == insert_article(c, data, db, rows, status)
      tw == post_tweet(data.headline, data.url, accepted)
  IN  IF parsed.exc # NoExc
      THEN [exc |-> parsed.exc, value |-> FALSE, rows |-> rows, status |-> status,
            tweet |-> <<>>, call |-> Call("skipped", FALSE, FALSE)]
      ELSE IF ins.exc # NoExc
      THEN [exc |-> ins.exc, value |-> FALSE, rows |-> ins.rows, status |-> ins.status,
            tweet |-> <<>>, call |-> Call("raised", FALSE, FALSE)]
      ELSE IF ShouldPublish(ins.value)
      THEN [exc |-> tw.exc, value |-> ProcessArticleReturn(ins.value),
            rows |-> ins.rows, status |-> ins.status,
            tweet |-> IF tw.value THEN <<tw.text>> ELSE <<>>,
            call |-> Call(IF ins.value THEN "True" ELSE "False", TRUE, tw.value)]
      ELSE [exc |-> NoExc, value |-> ProcessArticleReturn(ins.value),
            rows |-> ins.rows, status |-> ins.status, tweet |-> <<>>,
            call |-> Call(IF ins.value THEN "True" ELSE "False", FALSE, FALSE)]

(***************************************************************************)
(* __main__ (lines 226-261), run_news_cycle (lines 207-224) and the signal *)
(* handler (lines 26-34).                                                  *)
(***************************************************************************)
\* values of CHECK_INTERVAL_MINUTES that int() accepts
Intervals == 0..MaxInterval

\* how long a fetch may take
FetchDelays == {0, SleepSeconds}

\* faulty variant: last_check starts at the current time
InitialLastCheckNow(now, interval) == now

\* line 242: datetime.now() - timedelta(minutes=check_interval)
InitialLastCheck(now, interval) == now - interval * SecondsPerMinute

\* line 248
CycleDue(now, previous, interval) == now - previous >= interval * SecondsPerMinute

\* faulty variant: while True
LoopContinuesAlways(flag) == TRUE

\* line 244
LoopContinues(flag) == flag

\* faulty variant: last_check is taken when the cycle has returned
NextLastCheckNow(sampled, now) == now

\* line 251
NextLastCheck(sampled, now) == sampled

\* faulty variant: only connection errors are handled, anything else is raised again
\* and ends the main block (line 256)
AfterExceptReraise(e) ==
  IF SuggestsLostConnection(e) THEN "set_last_check" ELSE "finally"

\* lines 219-224: where run_news_cycle goes after catching an exception
AfterExcept(e) == "set_last_check"

\* faulty variant: only the storage connection is required
StartupFailedConnOnly(c, client) == c = NoConn

\* line 231: not conn or not twitter_client
StartupFailed(c, client) == c = NoConn \/ ~client

NoCall == [inserted |-> "none", posted |-> FALSE, failed |-> {}]
NoProbe == [called |-> FALSE]

Init ==
  /\ pc = "connect_db"
  /\ running = TRUE
  /\ clock = 0
  /\ conn = NoConn
  /\ twitter_client = FALSE
  /\ check_interval = 0
  /\ last_check = 0
  /\ current_time = 0
  /\ articles_len = 0
  /\ idx = 1
  /\ processed_count = 0
  /\ exc = NoExc
  /\ exit_code = NotExited
  /\ conn_status = [c \in Handles |-> "unopened"]
  /\ table_exists = FALSE
  /\ table = EmptyBag
  /\ timeline = {}
  /\ publish_calls = [u \in Urls |-> 0]
  /\ post_failed = {}
  /\ last_call = NoCall
  /\ fetch_failed = FALSE
  /\ cycled = FALSE
  /\ cycle_start = 0
  /\ idled = FALSE
  /\ idles_after_signal = 0
  /\ logged_count = 0
  /\ probe = NoProbe

\* lines 26-30, delivered at any instruction boundary once the handlers are
\* registered (lines 33-34)
signal_handler ==
  /\ pc # "stopped"
  /\ running' = FALSE
  /\ UNCHANGED <<pc, clock, conn, twitter_client, check_interval, last_check,
                 current_time, articles_len, idx, processed_count, exc, exit_code>>
  /\ UNCHANGED <<worldVars, histVars>>

\* line 228
ConnectAtStart ==
  /\ pc = "connect_db"
  /\ \E ok \in BOOLEAN :
       LET r == connect_db(ok, conn_status)
       IN  /\ conn' = r.conn
           /\ conn_status' = r.status
  /\ pc' = "init_twitter"
  /\ UNCHANGED <<running, clock, twitter_client, check_interval, last_check,
                 current_time, articles_len, idx, processed_count, exc, exit_code>>
  /\ UNCHANGED <<table_exists, table, timeline, histVars>>

\* line 229, init_twitter (lines 172-186)
InitTwitter ==
  /\ pc = "init_twitter"
  /\ \E ok \in BOOLEAN : twitter_client' = ok
  /\ pc' = "check_init"
  /\ UNCHANGED <<running, clock, conn, check_interval, last_check,
                 current_time, articles_len, idx, processed_count, exc, exit_code>>
  /\ UNCHANGED <<worldVars, histVars>>

\* lines 231-233.  sys.exit(1) is outside the try of line 235, so no
\* conn.close() runs; whether the interpreter finalizes the connection object
\* while it shuts down is left to the runtime.
CheckInit ==
  /\ pc = "check_init"
  /\ IF StartupFailed(conn, twitter_client)
     THEN /\ pc' = "stopped"
          /\ exit_code' = 1
          /\ \E finalized \in BOOLEAN :
               conn_status' =
                 IF finalized /\ conn # NoConn
                 THEN [conn_status EXCEPT ![conn] = "closed"] ELSE conn_status
     ELSE /\ pc' = "create_table"
          /\ exit_code' = exit_code
          /\ conn_status' = conn_status
  /\ UNCHANGED <<running, clock, conn, twitter_client, check_interval, last_check,
                 current_time, articles_len, idx, processed_count, exc>>
  /\ UNCHANGED <<table_exists, table, timeline, histVars>>

\* line 236, create_table (lines 112-128); a failure is caught at line 256
CreateTable ==
  /\ pc = "create_table"
  /\ \E ok \in BOOLEAN :
       IF ok
       THEN pc' = "configure" /\ table_exists' = TRUE
       ELSE pc' = "finally" /\ table_exists' = table_exists
  /\ UNCHANGED <<running, clock, conn, twitter_client, check_interval, last_check,
                 current_time, articles_len, idx, processed_count, exc, exit_code>>
  /\ UNCHANGED <<conn_status, table, timeline, histVars>>

\* lines 239-242; int() raises ValueError on a value that is no integer
Configure ==
  /\ pc = "configure"
  /\ \/ \E v \in Intervals :
          /\ check_interval' = v
          /\ last_check' = InitialLastCheck(clock, v)
          /\ pc' = "while"
     \/ /\ pc' = "finally"
        /\ UNCHANGED <<check_interval, last_check>>
  /\ UNCHANGED <<running, clock, conn, twitter_client, current_time, articles_len,
                 idx, processed_count, exc, exit_code>>
  /\ UNCHANGED <<worldVars, histVars>>

\* line 244
WhileRunning ==
  /\ pc = "while"
  /\ pc' = IF LoopContinues(running) THEN "read_clock" ELSE "finally"
  /\ UNCHANGED <<running, clock, conn, twitter_client, check_interval, last_check,
                 current_time, articles_len, idx, processed_count, exc, exit_code>>
  /\ UNCHANGED <<worldVars, histVars>>

\* line 245
ReadClock ==
  /\ pc = "read_clock"
  /\ current_time' = clock
  /\ pc' = "cadence"
  /\ UNCHANGED <<running, clock, conn, twitter_client, check_interval, last_check,
                 articles_len, idx, processed_count, exc, exit_code>>
  /\ UNCHANGED <<worldVars, histVars>>

\* lines 248-250: start a cycle if one is due, else go to sleep
CadenceCheck ==
  /\ pc = "cadence"
  /\ IF CycleDue(current_time, last_check, check_interval)
     THEN /\ pc' = "fetch"
          /\ cycled' = TRUE
          /\ cycle_start' = current_time
     ELSE /\ pc' = "sleep"
          /\ cycled' = cycled
          /\ cycle_start' = cycle_start
  /\ UNCHANGED <<running, clock, conn, twitter_client, check_interval, last_check,
                 current_time, articles_len, idx, processed_count, exc, exit_code>>
  /\ UNCHANGED <<worldVars, publish_calls, post_failed, last_call, fetch_failed, idled,
                 idles_after_signal, logged_count, probe>>

\* lines 210-211
FetchNews ==
  /\ pc = "fetch"
  /\ \E ok \in BOOLEAN, page \in Pages, d \in FetchDelays :
       /\ clock + d <= MaxClock
       /\ articles_len' = Len(fetch_news(ok, page))
       /\ fetch_failed' = ~ok
       /\ clock' = clock + d
  /\ idx' = 1
  /\ processed_count' = 0
  /\ exc' = NoExc
  /\ pc' = "for"
  /\ UNCHANGED <<running, conn, twitter_client, check_interval, last_check,
                 current_time, exit_code>>
  /\ UNCHANGED <<worldVars, publish_calls, post_failed, last_call, cycled, cycle_start, idled,
                 idles_after_signal, logged_count, probe>>

\* lines 213-215: one iteration of the for loop
ProcessArticle ==
  /\ pc = "for"
  /\ idx <= articles_len
  /\ \E article \in Articles, model \in ModelOutcomes, db \in DbOutcomes,
        accepted \in BOOLEAN :
       LET r == process_article(article, conn, model, db, accepted,
                                table, conn_status)
           u == article.url
       IN  \* an input the call does not read is not varied
           /\ r.call.posted \/ accepted
           /\ (r.call.inserted = "skipped" \/ conn = NoConn
                 \/ conn_status[conn] # "idle") => db = "ok"
           /\ r.call.inserted = "skipped" => model.ok
           /\ table' = r.rows
           /\ conn_status' = r.status
           /\ timeline' = timeline \cup {r.tweet[k] : k \in 1..Len(r.tweet)}
           /\ last_call' =
                [inserted |-> r.call.inserted, posted |-> r.call.posted,
                 failed |->
                   (IF model.ok THEN {} ELSE {"summarize"})
                     \cup (IF db = "error" THEN {"insert"} ELSE {})
                     \cup (IF r.call.posted /\ ~r.call.accepted THEN {"publish"} ELSE {})
                     \cup (IF r.call.inserted = "skipped" \/ db = "lost"
                              \/ conn = NoConn \/ conn_status[conn] \notin OpenStates
                           THEN {"other"} ELSE {})]
           /\ publish_calls' =
                IF r.call.posted
                THEN [publish_calls EXCEPT ![u] = @ + 1] ELSE publish_calls
           /\ post_failed' =
                IF r.call.posted /\ ~r.call.accepted
                THEN post_failed \cup {u} ELSE post_failed
           /\ IF r.exc # NoExc
              THEN /\ exc' = r.exc
                   /\ pc' = "except"
                   /\ UNCHANGED <<idx, processed_count>>
              ELSE /\ idx' = idx + 1
                   /\ processed_count' =
                        IF r.value THEN processed_count + 1 ELSE processed_count
                   /\ UNCHANGED <<exc, pc>>
  /\ UNCHANGED <<running, clock, conn, twitter_client, check_interval, last_check,
                 current_time, articles_len, exit_code>>
  /\ UNCHANGED <<table_exists, fetch_failed, cycled, cycle_start, idled, idles_after_signal,
                 logged_count, probe>>

\* lines 217, 224: the loop is over, log and return the same connection.
\* The locals of run_news_cycle end with the call.
CycleCompleted ==
  /\ pc = "for"
  /\ idx > articles_len
  /\ logged_count' = processed_count
  /\ pc' = "set_last_check"
  /\ articles_len' = 0
  /\ idx' = 1
  /\ processed_count' = 0
  /\ last_call' = NoCall
  /\ fetch_failed' = FALSE
  /\ UNCHANGED <<running, clock, conn, twitter_client, check_interval, last_check,
                 current_time, exc, exit_code>>
  /\ UNCHANGED <<worldVars, publish_calls, post_failed, cycled, cycle_start, idled,
                 idles_after_signal, probe>>

\* lines 219-224: the except clause of run_news_cycle
CycleExcept ==
  /\ pc = "except"
  /\ IF SuggestsLostConnection(exc)
     THEN \E ok \in BOOLEAN :
            LET r == connect_db(ok, conn_status)
            IN  /\ conn' = r.conn
                /\ conn_status' = r.status
     ELSE UNCHANGED <<conn, conn_status>>
  /\ pc' = AfterExcept(exc)
  /\ articles_len' = 0
  /\ idx' = 1
  /\ processed_count' = 0
  /\ exc' = NoExc
  /\ last_call' = NoCall
  /\ fetch_failed' = FALSE
  /\ UNCHANGED <<running, clock, twitter_client, check_interval, last_check,
                 current_time, exit_code>>
  /\ UNCHANGED <<table_exists, table, timeline, publish_calls, post_failed, cycled, cycle_start,
                 idled, idles_after_signal, logged_count, probe>>

\* line 251
SetLastCheck ==
  /\ pc = "set_last_check"
  /\ last_check' = NextLastCheck(current_time, clock)
  /\ pc' = "sleep"
  /\ UNCHANGED <<running, clock, conn, twitter_client, check_interval,
                 current_time, articles_len, idx, processed_count, exc, exit_code>>
  /\ UNCHANGED <<worldVars, histVars>>

\* line 254: time.sleep(60); a signal during the sleep runs the handler and
\* the sleep resumes.  The clock is only read again while running.
Sleep ==
  /\ pc = "sleep"
  /\ running => clock + SleepSeconds <= MaxClock
  /\ clock' = IF clock + SleepSeconds <= MaxClock THEN clock + SleepSeconds ELSE clock
  /\ idled' = TRUE
  /\ idles_after_signal' =
       IF running \/ idles_after_signal > 1
       THEN idles_after_signal ELSE idles_after_signal + 1
  /\ pc' = "while"
  /\ UNCHANGED <<running, conn, twitter_client, check_interval, last_check,
                 current_time, articles_len, idx, processed_count, exc, exit_code>>
  /\ UNCHANGED <<worldVars, publish_calls, post_failed, last_call, fetch_failed, cycled, cycle_start,
                 logged_count, probe>>

\* lines 256-261: the finally clause and the normal end of the script
Finally ==
  /\ pc = "finally"
  /\ conn_status' =
       IF conn # NoConn THEN [conn_status EXCEPT ![conn] = "closed"] ELSE conn_status
  /\ exit_code' = 0
  /\ pc' = "stopped"
  /\ UNCHANGED <<running, clock, conn, twitter_client, check_interval, last_check,
                 current_time, articles_len, idx, processed_count, exc>>
  /\ UNCHANGED <<table_exists, table, timeline, histVars>>

MainStep ==
  \/ ConnectAtStart
  \/ InitTwitter
  \/ CheckInit
  \/ CreateTable
  \/ Configure
  \/ WhileRunning
  \/ ReadClock
  \/ CadenceCheck
  \/ FetchNews
  \/ ProcessArticle
  \/ CycleCompleted
  \/ CycleExcept
  \/ SetLastCheck
  \/ Sleep
  \/ Finally

Next == MainStep \/ signal_handler

Spec == Init /\ [][Next]_vars

\* every call returns: the main thread keeps taking steps
FairSpec == Spec /\ WF_vars(MainStep)

(***************************************************************************)
(* The storage adapter on its own: insert_article called directly, with    *)
(* any article data and any database outcome, on the connection the caller *)
(* holds, which the caller may replace as run_news_cycle does (line 223).  *)
(***************************************************************************)
StoreInit ==
  /\ pc = "store"
  /\ running = TRUE
  /\ clock = 0
  /\ conn = 1
  /\ twitter_client = TRUE
  /\ check_interval = 0
  /\ last_check = 0
  /\ current_time = 0
  /\ articles_len = 0
  /\ idx = 1
  /\ processed_count = 0
  /\ exc = NoExc
  /\ exit_code = NotExited
  /\ conn_status = [c \in Handles |-> IF c = 1 THEN "idle" ELSE "unopened"]
  /\ table_exists = TRUE
  /\ table = EmptyBag
  /\ timeline = {}
  /\ publish_calls = [u \in Urls |-> 0]
  /\ post_failed = {}
  /\ last_call = NoCall
  /\ fetch_failed = FALSE
  /\ cycled = FALSE
  /\ cycle_start = 0
  /\ idled = FALSE
  /\ idles_after_signal = 0
  /\ logged_count = 0
  /\ probe = NoProbe

StoreInsert ==
  /\ pc = "store"
  /\ \E p \in Prepared, db \in DbOutcomes :
       /\ p.parsed.exc = NoExc
       /\ LET r == insert_article(conn, p.data, db, table, conn_status)
          IN  /\ table' = r.rows
              /\ conn_status' = r.status
              /\ probe' = [called |-> TRUE, url |-> p.data.url, db |-> db,
                           usable |-> conn # NoConn /\ conn_status[conn] = "idle",
                           before |-> table, exc |-> r.exc, value |-> r.value]
  /\ UNCHANGED <<progVars, table_exists, timeline>>
  /\ UNCHANGED <<publish_calls, post_failed, last_call, fetch_failed, cycled, cycle_start, idled,
                 idles_after_signal, logged_count>>

StoreReconnect ==
  /\ pc = "store"
  /\ \E ok \in BOOLEAN :
       LET r == connect_db(ok, conn_status)
       IN  /\ conn' = r.conn
           /\ conn_status' = r.status
  /\ UNCHANGED <<pc, running, clock, twitter_client, check_interval, last_check,
                 current_time, articles_len, idx, processed_count, exc, exit_code>>
  /\ UNCHANGED <<table_exists, table, timeline, histVars>>

StoreNext == StoreInsert \/ StoreReconnect

StoreSpec == StoreInit /\ [][StoreNext]_vars

(***************************************************************************)
(* The summarizer on its own: summarize_article called once with any       *)
(* article and any outcome of the model call.                              *)
(***************************************************************************)
SummarizeInit ==
  /\ pc = "summarize"
  /\ running = TRUE
  /\ clock = 0
  /\ conn = NoConn
  /\ twitter_client = FALSE
  /\ check_interval = 0
  /\ last_check = 0
  /\ current_time = 0
  /\ articles_len = 0
  /\ idx = 1
  /\ processed_count = 0
  /\ exc = NoExc
  /\ exit_code = NotExited
  /\ conn_status = [c \in Handles |-> "unopened"]
  /\ table_exists = FALSE
  /\ table = EmptyBag
  /\ timeline = {}
  /\ publish_calls = [u \in Urls |-> 0]
  /\ post_failed = {}
  /\ last_call = NoCall
  /\ fetch_failed = FALSE
  /\ cycled = FALSE
  /\ cycle_start = 0
  /\ idled = FALSE
  /\ idles_after_signal = 0
  /\ logged_count = 0
  /\ probe \in {[called |-> FALSE, article |-> a, model |-> m] :
                  a \in Articles, m \in AnyModelOutcomes}

SummarizeCall ==
  /\ pc = "summarize"
  /\ ~probe.called
  /\ probe' = [called |-> TRUE, article |-> probe.article, model |-> probe.model,
               result |-> summarize_article(probe.article, probe.model)]
  /\ UNCHANGED <<progVars, worldVars>>
  /\ UNCHANGED <<publish_calls, post_failed, last_call, fetch_failed, cycled, cycle_start, idled,
                 idles_after_signal, logged_count>>

SummarizeSpec == SummarizeInit /\ [][SummarizeCall]_vars

(***************************************************************************)
(* Properties.                                                             *)
(***************************************************************************)
StoredUrls(rows) == {r.url : r \in BagToSet(rows)}

\* a process_article call has just been made by the cycle in progress
CallMade == pc \in {"for", "except"} /\ last_call.inserted # "none"

\* C1 (dedup gate): for every article processed in a cycle, post_tweet is
\* called if and only if insert_article returned True for that article.
C1_DedupGate ==
  CallMade => (last_call.posted <=> last_call.inserted = "True")

\* an article was stored and post_tweet was called for it
C1_Witness == CallMade /\ last_call.inserted = "True" /\ last_call.posted

\* at most one row per url
OneRowPerUrl(rows) ==
  \A r1 \in BagToSet(rows) :
    /\ CopiesIn(r1, rows) = 1
    /\ \A r2 \in BagToSet(rows) : r1.url = r2.url => r1 = r2

\* C2 (idempotent ingestion): the table never holds two rows with one url; an
\* insert_article call for a url that already has a row returns False and
\* leaves the rows as they were, and raises nothing when the statement runs;
\* a call for a url without a row whose statement runs returns True and adds
\* exactly one row, the one for that url; no call that returns False or raises
\* changes the rows.
C2_IdempotentIngestion ==
  /\ OneRowPerUrl(table)
  /\ probe.called =>
       /\ probe.url \in StoredUrls(probe.before) =>
            /\ table = probe.before
            /\ ~probe.value
            /\ (probe.usable /\ probe.db = "ok") => probe.exc = NoExc
       /\ (probe.url \notin StoredUrls(probe.before) /\ probe.usable /\ probe.db = "ok") =>
            /\ probe.exc = NoExc /\ probe.value
       /\ probe.value =>
            /\ probe.url \notin StoredUrls(probe.before)
            /\ StoredUrls(table) = StoredUrls(probe.before) \cup {probe.url}
            /\ BagCardinality(table) = BagCardinality(probe.before) + 1
            /\ probe.before \sqsubseteq table
       /\ (~probe.value \/ probe.exc # NoExc) => table = probe.before

\* the second insert of a url: it ran, returned False, and the table holds
\* both urls' rows, one each
C2_Witness ==
  /\ probe.called /\ probe.usable /\ probe.db = "ok"
  /\ probe.url \in StoredUrls(probe.before)
  /\ ~probe.value
  /\ BagCardinality(table) = 2

\* C3: across cycles, with errors and reconnects, every url is published at
\* most once, and only by the process_article call that created its row: a
\* call for a url that already has a row publishes nothing.
C3_PublishedOnce ==
  /\ [](\A u \in Urls : publish_calls[u] <= 1)
  /\ [][\A u \in Urls :
          publish_calls'[u] # publish_calls[u] =>
            /\ u \notin StoredUrls(table)
            /\ u \in StoredUrls(table')
            /\ publish_calls'[u] = publish_calls[u] + 1]_vars

\* after a reconnect, an article whose url is stored and was published is
\* offered again: insert_article returns False and nothing is posted
C3_Witness ==
  /\ CallMade /\ last_call.inserted = "False" /\ ~last_call.posted
  /\ conn > 1
  /\ idled
  /\ StoredUrls(table) = {Url1, Url2}
  /\ publish_calls[Url1] = 1 /\ publish_calls[Url2] = 1

\* C4 (shutdown): once the handler has cleared the flag no new cycle starts,
\* wherever in the loop the signal arrives.
C4_NoCycleAfterSignal ==
  [][(pc = "cadence" /\ pc' = "fetch") => running]_vars

\* C5 (bounded shutdown): after the flag is cleared at most one idle sleep
\* completes before the loop exits: the loop test that follows that sleep
\* leaves the loop, and until the process has stopped the main thread always
\* has a next step to take (every call returning, nothing holds it up).
C5_BoundedShutdown ==
  /\ [](idles_after_signal <= 1)
  /\ [][(pc = "sleep" /\ pc' = "while" /\ ~running) =>
          idles_after_signal' = 1]_vars
  /\ [][(pc = "while" /\ pc' # pc /\ ~running) => pc' = "finally"]_vars
  /\ []((~running /\ pc # "stopped") => ENABLED MainStep)

\* the flag was cleared while the loop ran; one idle sleep completed after
\* that and the process stopped with rows stored
C5_Witness ==
  /\ pc = "stopped" /\ exit_code = 0
  /\ ~running /\ idles_after_signal = 1
  /\ table # EmptyBag

\* C6 (first-run immediacy): with both dependencies up, the first cadence
\* check finds a cycle due whatever the interval, so no idle sleep completes
\* before the first cycle has started.
C6_FirstRunImmediate ==
  /\ (pc = "cadence" /\ ~idled) =>
       CycleDue(current_time, last_check, check_interval)
  /\ idled => cycled
  /\ (pc = "sleep" /\ ~idled) => cycled

\* the first cycle starts before any idle sleep, with the longest interval
C6_Witness ==
  pc = "fetch" /\ ~idled /\ check_interval = MaxInterval /\ running

\* C7 (fetch failure): a failed feed call yields an empty page without
\* raising; the cycle then processes nothing, leaves the table, the
\* connection, the timeline and the publish history as they were, does not
\* reconnect, returns, and last_check is set as after any cycle.
C7_FetchFailureTolerated ==
  /\ [](fetch_failed => (pc = "for" /\ articles_len = 0 /\ exc = NoExc))
  /\ [][(fetch_failed /\ pc = "for") =>
          /\ pc' \in {"for", "set_last_check"}
          /\ UNCHANGED <<conn, worldVars, publish_calls, post_failed, exit_code>>]_vars
  /\ [][(pc = "fetch" /\ fetch_failed') =>
          UNCHANGED <<conn, worldVars, publish_calls, post_failed, exit_code>>]_vars
  /\ [][(pc = "set_last_check" /\ pc' # pc) =>
          (pc' = "sleep" /\ last_check' = current_time)]_vars

\* a fetch fails in a cycle after the first, with rows already stored
C7_Witness == fetch_failed /\ pc = "for" /\ idled /\ table # EmptyBag

InCycle == pc \in {"fetch", "for", "except"}

\* C8: no exception raised in a cycle ends the process: a cycle only ever
\* returns to the loop, the except clause always returns (also when its
\* reconnect fails), and the loop is left only when the flag is cleared.
C8_CycleErrorNotFatal ==
  /\ [][InCycle =>
          (pc' \in {"fetch", "for", "except", "set_last_check"}
             /\ exit_code' = NotExited)]_vars
  /\ [][(pc = "except" /\ pc' # pc) => pc' = "set_last_check"]_vars
  /\ [][(pc' = "finally" /\ pc \notin {"finally", "create_table", "configure"}) =>
          (pc = "while" /\ ~running)]_vars

\* the cycle lost its connection, the reconnect failed, the cycle returned
\* and the loop went on to check the cadence again without a connection
C8_Witness == pc = "cadence" /\ conn = NoConn /\ idled /\ running

\* C9 (insert contract): insert_article always returns a boolean and never
\* raises, also with a lost or absent connection.
C9_InsertNeverRaises == CallMade => last_call.inserted # "raised"

\* C10: a failed post_tweet raises nothing, the row stays stored, and the
\* url is never posted again.
C10_FailedPostNotRetried ==
  /\ [](\A u \in post_failed : u \in StoredUrls(table) /\ publish_calls[u] = 1)
  /\ [][post_failed' # post_failed =>
          (pc' = "for" /\ idx' = idx + 1 /\ exc' = NoExc
             /\ last_call'.inserted = "True")]_vars

\* both urls' posts failed; a later cycle offers a stored url again and
\* nothing is posted
C10_Witness ==
  /\ post_failed = {Url1, Url2}
  /\ CallMade /\ last_call.inserted = "False" /\ ~last_call.posted
  /\ idled
  /\ timeline = {}

\* C11 (startup failure is fatal): when connect_db or init_twitter failed the
\* process goes from the check on line 231 straight to its end with exit
\* status 1, the table not created and no cycle started; every other run
\* that ends does so with exit status 0.
C11_StartupFailureFatal ==
  /\ [](pc = "stopped" =>
         exit_code = IF conn_status[1] = "unopened" \/ ~twitter_client THEN 1 ELSE 0)
  /\ [](pc # "stopped" => exit_code = NotExited)
  /\ [](exit_code = 1 => (~table_exists /\ ~cycled /\ table = EmptyBag))
  /\ [][(pc = "check_init" /\ pc' # pc) =>
          IF conn = NoConn \/ ~twitter_client
          THEN pc' = "stopped" /\ exit_code' = 1
          ELSE pc' = "create_table" /\ exit_code' = NotExited]_vars

\* the storage connection was acquired, the publisher client was not: the
\* process has stopped with exit status 1
C11_Witness ==
  pc = "stopped" /\ exit_code = 1 /\ conn # NoConn /\ ~twitter_client

\* the model call of the last summarize_article call failed: it raised, or
\* reading the content of its response did
ModelFailed == probe.called /\ (~probe.model.ok \/ probe.model.reply = None)

\* C12 (summarizer fallback): when the model call fails, summarize_article
\* returns the article's title as headline and the article's description as
\* summary, the empty string when the description is None.
C12_SummarizerFallback ==
  ModelFailed =>
    /\ probe.result.headline = probe.article.title
    /\ probe.result.summary =
         IF probe.article.description = None THEN <<>> ELSE probe.article.description

\* the model call raised for an article that has content but no description:
\* the summary is empty
C12_Witness ==
  /\ probe.called /\ ~probe.model.ok
  /\ probe.article.description = None /\ probe.article.content # None
  /\ probe.result.summary = <<>>

\* the model call of the last summarize_article call answered with a text
ModelReplied == probe.called /\ probe.model.ok /\ probe.model.reply # None

\* C13 (parse, no boundary): for a reply without a blank-line boundary, also
\* one that begins with or contains "Headline: ", the headline and the
\* summary both equal the full reply text.
C13_ParseNoBoundary ==
  (ModelReplied /\ Find(probe.model.reply, BlankLine) = 0) =>
    /\ probe.result.headline = probe.model.reply
    /\ probe.result.summary = probe.model.reply

\* C14 (parse, two-part reply): for a reply with a blank-line boundary the
\* headline is the segment before the first boundary, without "Headline: "
\* only where that is a prefix of the segment, and the summary is everything
\* after the first boundary, unchanged.
C14_ParseTwoPart ==
  (ModelReplied /\ Find(probe.model.reply, BlankLine) # 0) =>
    LET reply == probe.model.reply
        i == Find(reply, BlankLine)
        segment == SubSeq(reply, 1, i - 1)
    IN  /\ probe.result.headline =
             IF StartsWithAt(segment, HeadlinePrefix, 1)
             THEN Drop(segment, Len(HeadlinePrefix) + 1)
             ELSE segment
        /\ probe.result.summary = Drop(reply, i + Len(BlankLine))

\* C15 (reconnect rule): run_news_cycle returns the result of a fresh
\* connect_db call exactly when it caught an exception whose text contains
\* "connection" in any case; after any other exception and after a cycle
\* without exception it returns the connection it was given.  Nothing else
\* replaces the connection after startup, and the publisher client is never
\* replaced.
C15_ReconnectRule ==
  /\ [][(pc = "except" /\ pc' # pc) =>
          IF MentionsConnection(exc)
          THEN \/ conn' = NoConn /\ conn_status' = conn_status
               \/ /\ conn' \in Handles /\ conn' # conn
                  /\ conn_status[conn'] = "unopened"
                  /\ conn_status' = [conn_status EXCEPT ![conn'] = "idle"]
          ELSE conn' = conn /\ conn_status' = conn_status]_vars
  /\ [][conn' # conn => pc \in {"connect_db", "except"}]_vars
  /\ [][twitter_client' # twitter_client => pc = "init_twitter"]_vars

\* the first connection was lost in a cycle and run_news_cycle has returned
\* a second, open one
C15_Witness ==
  /\ pc = "set_last_check" /\ conn = 2
  /\ conn_status[1] = "broken" /\ conn_status[2] = "idle"

\* one iteration of the for loop of run_news_cycle is taken
ArticleStep == pc = "for" /\ idx <= articles_len /\ (pc' = "except" \/ idx' = idx + 1)

\* C16 (degraded mode): once a reconnect has failed and the process holds no
\* connection, every fetched article that reaches the insert still gets an
\* insert_article call that returns False, nothing is published for it and the
\* for loop goes on to the next article; the cycle returns to the main loop.
C16_DegradedMode ==
  /\ [][(ArticleStep /\ conn = NoConn /\ last_call'.inserted # "skipped") =>
          /\ last_call'.inserted = "False" /\ ~last_call'.posted
          /\ pc' = "for" /\ idx' = idx + 1]_vars
  /\ [][(InCycle /\ conn = NoConn) =>
          pc' \in {"fetch", "for", "except", "set_last_check"}]_vars

\* C17 (connection closed at the end): whenever the process has stopped, by
\* graceful shutdown, startup failure, a critical error or after reconnects,
\* no connection it opened is still open.
C17_ConnectionClosedAtStop ==
  pc = "stopped" => \A c \in Handles : conn_status[c] \notin OpenStates

\* C18 (per-article failure isolation): when the summarization, the INSERT
\* statement or the post of one article fails and nothing else does, the
\* call raises nothing and the for loop goes on to the next article of the
\* same page, with the connection it had.
C18_FailureIsolation ==
  [][(ArticleStep /\ last_call'.failed # {} /\ "other" \notin last_call'.failed) =>
       /\ pc' = "for" /\ idx' = idx + 1 /\ articles_len' = articles_len
       /\ exc' = NoExc
       /\ last_call'.inserted \in {"True", "False"}
       /\ conn' = conn /\ conn_status'[conn] = "idle"]_vars

\* in the first cycle the INSERT of the first article failed; the second
\* article of the page was stored and posted
C18_Witness ==
  /\ pc = "for" /\ idx = 3 /\ ~idled
  /\ last_call.inserted = "True" /\ last_call.posted /\ last_call.failed = {}
  /\ BagCardinality(table) = 1

\* C19 (cadence spacing): a cycle starts only from the cadence check of the
\* main loop, so cycles never overlap; two consecutive cycles start at least
\* check_interval minutes apart; an iteration of the loop starts no cycle
\* only when less than check_interval minutes have passed since the last
\* cycle started; and between cycles last_check is the time sampled when
\* the last cycle started.
C19_CadenceSpacing ==
  /\ [][pc' = "fetch" => pc \in {"fetch", "cadence"}]_vars
  /\ [][(pc' = "cadence" /\ pc # pc') => pc = "read_clock"]_vars
  /\ [][(pc = "cadence" /\ pc' = "fetch" /\ cycled) =>
          current_time - cycle_start >= check_interval * SecondsPerMinute]_vars
  /\ [][(pc = "cadence" /\ pc' = "sleep") =>
          (cycled /\ current_time - cycle_start < check_interval * SecondsPerMinute)]_vars
  /\ []((cycled /\ pc \in {"sleep", "while", "read_clock", "cadence"}) =>
          last_check = cycle_start)

\* with the longest interval, a second cycle starts exactly check_interval
\* minutes after the first
C19_Witness ==
  /\ pc = "fetch" /\ idled /\ check_interval = MaxInterval
  /\ current_time - last_check = MaxInterval * SecondsPerMinute
  /\ cycle_start = current_time

\* C20 (cycle accounting): the count in the "Cycle completed" line is the
\* number of articles of that cycle for which insert_article created a row:
\* the count starts at zero with the fetch, grows by one exactly with each
\* article that adds a row, and is the number logged when the for loop ends.
C20_CycleAccounting ==
  /\ [][(pc = "fetch" /\ pc' = "for") => processed_count' = 0]_vars
  /\ [][(ArticleStep /\ pc' = "for") =>
          processed_count' - processed_count =
            BagCardinality(table') - BagCardinality(table)]_vars
  /\ [][(pc = "for" /\ pc' = "set_last_check") =>
          logged_count' = processed_count]_vars

====
